---- MODULE Spec2Model ----
(***************************************************************************)
(* Model of src/api/pangea_api.py: the AIDR metadata merger, the POST/GET  *)
(* wrappers that turn request failures into synthesized responses, and the *)
(* polling loop of poll_request.                                           *)
(***************************************************************************)
EXTENDS Integers, Sequences, FiniteSets, TLC

VARIABLES
    \* ---- poll_request (lines 141-176) ----
    max_attempts,   \* the max_attempts argument
    status_code,    \* local status_code
    response,       \* local response
    counter,        \* local counter
    pc,             \* "get": at the loop head, "sleep": at time.sleep(5),
                    \* "done": returned (status_code, response), "raised"
    events,         \* what poll_request did so far: "GET" and "SLEEP"
    lead,           \* the server answers "Accepted" to GETs 1..lead,
    final,          \* then `final` to GET lead+1, then "Accepted" for ever
    \* ---- merge_aidr_metadata / pangea_post_api / pangea_get_api ----
    heap,           \* the dict objects: address -> mapping of keys to values
    calls,          \* number of calls made so far
    last            \* what the last call was given, sent and returned

pollVars == <<max_attempts, status_code, response, counter, pc, events, lead, final>>
dataVars == <<heap, calls, last>>
vars == <<max_attempts, status_code, response, counter, pc, events, lead, final,
          heap, calls, last>>

\* ---------------------------------------------------------------- bounds
MaxAttempts == 12
MaxLead == 12
MaxCalls == 2
\* the GETs after which a loop that did not stop is no longer followed
MaxGets == MaxAttempts + MaxLead + 2

\* ---------------------------------------------------------------- values
\* Python values that occur: str, int, None and references to dict objects.
Str(s) == [t |-> "str", s |-> s, n |-> 0]
Num(n) == [t |-> "int", s |-> "", n |-> n]
Ref(a) == [t |-> "ref", s |-> "", n |-> a]
None == [t |-> "none", s |-> "", n |-> 0]

EmptyDict == [k \in {} |-> None]
\* d[k] = v on a dict
DictSet(d, k, v) == [x \in DOMAIN d \cup {k} |-> IF x = k THEN v ELSE d[x]]
\* d.update(e)
DictUpdate(d, e) == [x \in DOMAIN d \cup DOMAIN e |-> IF x \in DOMAIN e THEN e[x] ELSE d[x]]

\* ---------------------------------------------------------------- JSON
\* A JSON text is its member list in document order (or no JSON at all).
NoContent == [valid |-> FALSE, members |-> <<>>]

\* json.dumps(dict).encode("utf-8"): the members in insertion order
json_dumps(items) == [valid |-> TRUE, members |-> items]

RECURSIVE ParseMembers(_)
\* the mapping a member list decodes to; a repeated name keeps its last value
ParseMembers(ms) ==
    IF ms = <<>> THEN EmptyDict
    ELSE DictSet(ParseMembers(SubSeq(ms, 1, Len(ms) - 1)), ms[Len(ms)][1], ms[Len(ms)][2])

\* response.json() raises when the body is no JSON
JsonRaises(resp) == ~resp.content.valid
\* response.json()
ResponseJson(resp) == ParseMembers(resp.content.members)

\* ---------------------------------------------------------------- responses
NoResponse == [oid |-> 0, status_code |-> 0, content |-> NoContent]

\* what requests.get / requests.post did: returned a response or raised
Returned(code, content) ==
    [kind |-> "response", code |-> code, content |-> content, exc |-> "", text |-> ""]
Raises(exc, text) ==
    [kind |-> "raise", code |-> 0, content |-> NoContent, exc |-> exc, text |-> text]

\* the Response object requests hands back; oid is the object's identity
Underlying(outcome, oid) ==
    [oid |-> oid, status_code |-> outcome.code, content |-> outcome.content]

\* except requests.exceptions.Timeout: Timeout and its subclasses
IsTimeout(exc) == exc \in {"Timeout", "ConnectTimeout", "ReadTimeout"}
\* except requests.exceptions.RequestException: every requests exception
IsRequestException(exc) ==
    exc \in {"Timeout", "ConnectTimeout", "ReadTimeout", "ConnectionError",
             "HTTPError", "RequestException"}

create_error_response(code, message, oid) ==
    [oid |-> oid, status_code |-> code,
     content |-> json_dumps(<< <<"status", Num(code)>>, <<"message", Str(message)>> >>)]

\* the result of a wrapper call: a returned response, or an exception that left it
Return(resp) == [raised |-> FALSE, resp |-> resp]
Propagate == [raised |-> TRUE, resp |-> NoResponse]

\* the two except clauses in the other order: Timeout is a RequestException
HandleRequestExceptionFirst(outcome, oid) ==
    IF IsRequestException(outcome.exc)
    THEN Return(create_error_response(400, "Bad Request: " \o outcome.text, oid))
    ELSE IF IsTimeout(outcome.exc)
    THEN Return(create_error_response(408, "Request Timeout", oid))
    ELSE Propagate

\* the except clauses of pangea_post_api and pangea_get_api, in their order
HandleException(outcome, oid) ==
    IF IsTimeout(outcome.exc)
    THEN Return(create_error_response(408, "Request Timeout", oid))
    ELSE IF IsRequestException(outcome.exc)
    THEN Return(create_error_response(400, "Bad Request: " \o outcome.text, oid))
    ELSE Propagate

pangea_get_api(outcome, oid) ==
    IF outcome.kind = "response"
    THEN Return(Underlying(outcome, oid))
    ELSE HandleException(outcome, oid)

pangea_request(outcome, oid) == pangea_get_api(outcome, oid)

\* ---------------------------------------------------------------- the default metadata
\* getpass.getuser() when the module is imported
getuser == "lab"

\* the addresses of DEFAULT_AIDR_METADATA and of its extra_info dict
DefaultAddr == 1
DefaultExtraAddr == 2

DEFAULT_EXTRA_INFO ==
    ("actor_name" :> Str(getuser)) @@ ("app_name" :> Str("AIGuard-lab"))

DEFAULT_AIDR_METADATA ==
    ("event_type" :> Str("input")) @@ ("app_id" :> Str("AIG-lab"))
    @@ ("actor_id" :> Str("test tool")) @@ ("llm_provider" :> Str("test"))
    @@ ("model" :> Str("GPT-6-super")) @@ ("model_version" :> Str("6s"))
    @@ ("source_ip" :> Str("74.244.51.54")) @@ ("extra_info" :> Ref(DefaultExtraAddr))

\* the dict objects that exist once the module is imported
ModuleHeap == <<DEFAULT_AIDR_METADATA, DEFAULT_EXTRA_INFO>>

\* ---------------------------------------------------------------- merge_aidr_metadata
\* a heap and an address in it
At(h, a) == [heap |-> h, addr |-> a]
\* a new dict object with contents d
Alloc(h, d) == At(Append(h, d), Len(h) + 1)

IsDict(v) == v.t = "ref"
\* if aidr_config: None and the empty dict are false
Truthy(h, cfg) == cfg # None /\ h[cfg.n] # EmptyDict

\* metadata = DEFAULT_AIDR_METADATA.copy()
MetadataCopy(h) == Alloc(h, h[DefaultAddr])

\* the shallow copy alone: metadata["extra_info"] is still the default's dict
ExtraInfoShared(h, m) == h
\* metadata["extra_info"] = DEFAULT_AIDR_METADATA["extra_info"].copy()
ExtraInfoCopy(h, m) ==
    LET e == Alloc(h, h[h[DefaultAddr]["extra_info"].n])
    IN [e.heap EXCEPT ![m] = DictSet(@, "extra_info", Ref(e.addr))]

\* extra_info taken from the override wholesale
ExtraInfoReplace(h, m, value) == [h EXCEPT ![m] = DictSet(@, "extra_info", value)]
\* metadata["extra_info"].update(value)
ExtraInfoUpdate(h, m, value) ==
    [h EXCEPT ![h[m]["extra_info"].n] = DictUpdate(@, h[value.n])]

\* for key, value in aidr_config.items(): the keys are distinct and the
\* extra_info arm reads metadata["extra_info"] only, which no other key's arm
\* assigns, so the order of the items does not matter
ApplyOverride(h, m, cfg) ==
    IF ~Truthy(h, cfg) THEN h
    ELSE LET c == h[cfg.n]
             merged == {k \in DOMAIN c : k = "extra_info" /\ IsDict(c[k])}
             plain == DOMAIN c \ merged
             h1 == [h EXCEPT ![m] =
                      [x \in DOMAIN @ \cup plain |-> IF x \in plain THEN c[x] ELSE @[x]]]
         IN IF merged = {} THEN h1 ELSE ExtraInfoUpdate(h1, m, c["extra_info"])

\* every metadata key written into data, present or not
InsertOverwriting(h, data, m) == [h EXCEPT ![data] = DictUpdate(@, h[m])]
\* for key, value in metadata.items(): if key not in data: data[key] = value
InsertMissing(h, data, m) ==
    [h EXCEPT ![data] =
       [x \in DOMAIN @ \cup DOMAIN h[m] |-> IF x \in DOMAIN @ THEN @[x] ELSE h[m][x]]]

\* the heap after merge_aidr_metadata(data, aidr_config); it returns data itself
merge_aidr_metadata(h, data, cfg) ==
    LET md == MetadataCopy(h)
        h2 == ExtraInfoCopy(md.heap, md.addr)
        h3 == ApplyOverride(h2, md.addr, cfg)
    IN InsertMissing(h3, data, md.addr)

\* ---------------------------------------------------------------- the callers' arguments
\* a dict value with its nested dicts written out
Deep(h, v) == IF IsDict(v) THEN [t |-> "dict", d |-> h[v.n]] ELSE v
DeepDict(h, a) == [k \in DOMAIN h[a] |-> Deep(h, h[a][k])]

Absent == [t |-> "absent", s |-> "", n |-> 0]
\* a nested dict with contents d, to be allocated
Nested(d) == [t |-> "dict", d |-> d]

\* the data mappings callers pass: plain keys, and extra_info absent or a dict
TargetPlain ==
    { EmptyDict,
      ("messages" :> Str("hi")) @@ ("model" :> Str("caller-model")) }
TargetExtra ==
    { Absent, Nested(("app_name" :> Str("caller-app"))) }

\* the aidr_config mappings callers pass, besides None
OverridePlain ==
    { EmptyDict,
      ("model" :> Str("cfg-model")) @@ ("app_id" :> Str("cfg-app")) @@ ("team" :> Str("red")) }
OverrideExtra ==
    { Absent, Str("flat"), Nested(EmptyDict),
      Nested(("a" :> Num(1)) @@ ("app_name" :> Str("cfg-name"))) }

\* a caller's dict built on the heap: plain keys, and extra_info when given
Build(h, plain, extra) ==
    IF extra = Absent THEN Alloc(h, plain)
    ELSE IF extra.t = "dict"
    THEN LET e == Alloc(h, extra.d)
         IN Alloc(e.heap, DictSet(plain, "extra_info", Ref(e.addr)))
    ELSE Alloc(h, DictSet(plain, "extra_info", extra))

\* ---------------------------------------------------------------- calls of merge_aidr_metadata
\* a caller builds data and aidr_config and calls merge_aidr_metadata
MergeCall ==
    /\ calls < MaxCalls
    /\ \E tp \in TargetPlain, te \in TargetExtra, withCfg \in BOOLEAN,
          op \in OverridePlain, oe \in OverrideExtra :
          LET d == Build(heap, tp, te)
              c == Build(d.heap, op, oe)
              h0 == IF withCfg THEN c.heap ELSE d.heap
              cfg == IF withCfg THEN Ref(c.addr) ELSE None
              h1 == merge_aidr_metadata(h0, d.addr, cfg)
          IN /\ (~withCfg) => (op = EmptyDict /\ oe = Absent)
             /\ heap' = h1
             /\ last' = [op |-> "merge", data |-> d.addr, cfg |-> cfg,
                         heap0 |-> h0, heap1 |-> h1]
    /\ calls' = calls + 1
    /\ UNCHANGED pollVars

\* the caller changes the extra_info mapping of the result returned last
MutateExtraInfo ==
    /\ last.op = "merge"
    /\ "extra_info" \in DOMAIN heap[last.data]
    /\ IsDict(heap[last.data]["extra_info"])
    /\ LET e == heap[last.data]["extra_info"].n
       IN heap' = [heap EXCEPT ![e] = DictSet(@, "actor_name", Str("changed"))]
    /\ heap' # heap
    /\ UNCHANGED <<calls, last>>
    /\ UNCHANGED pollVars


\* ---------------------------------------------------------------- the server
Accepted == Str("Accepted")
Success == Str("Success")

StatusBody(s) == json_dumps(<< <<"status", s>>, <<"request_id", Str("prq_1")>> >>)

\* what a GET of /request/{id} can do
GetOutcomes ==
    { Returned(202, StatusBody(Accepted)),
      Returned(200, StatusBody(Success)),
      Returned(400, StatusBody(Str("ValidationError"))),
      Returned(200, json_dumps(<< <<"detail", Str("no status")>> >>)),
      Returned(502, NoContent),
      Raises("ReadTimeout", "read timed out"),
      Raises("ConnectionError", "connection refused") }

\* the server's answer to the k-th GET
Answer(k) ==
    IF k = lead + 1 THEN final ELSE Returned(202, StatusBody(Accepted))

\* ---------------------------------------------------------------- poll_request
Gets == Len(SelectSeq(events, LAMBDA e : e = "GET"))
Sleeps == Len(SelectSeq(events, LAMBDA e : e = "SLEEP"))

\* the ceiling test taken one attempt late
CeilingOneLate(c, m) == c = m + 1
\* the ceiling test taken one attempt early
CeilingOneEarly(c, m) == c + 1 = m
\* if counter == max_attempts
CeilingReached(c, m) == c = m

\* a loop that breaks on "Success" alone (the elif arm left out)
StopsOnSuccessOnly(s) == s = Success
\* a loop that goes on polling after a status that is no string
StopsOnStringsOnly(s) == s = Success \/ (s # Accepted /\ s.t = "str")
\* if status_code == "Success": break / elif status_code != "Accepted": break
Terminal(s) == s = Success \/ s # Accepted

\* the while test and one pass of the loop body up to the sleep
PollGet ==
    /\ pc = "get"
    /\ Gets < MaxGets
    /\ IF status_code # Accepted
       THEN \* while status_code == "Accepted" is false: return
            /\ pc' = "done"
            /\ UNCHANGED <<events, response, status_code>>
       ELSE LET r == pangea_request(Answer(Gets + 1), Gets + 1)
            IN /\ events' = Append(events, "GET")
               /\ IF r.raised
                  THEN /\ pc' = "raised"
                       /\ UNCHANGED <<response, status_code>>
                  ELSE /\ response' = r.resp
                       /\ IF r.resp = NoResponse
                          THEN /\ pc' = "done"
                               /\ UNCHANGED status_code
                          ELSE IF JsonRaises(r.resp)
                                  \/ "status" \notin DOMAIN ResponseJson(r.resp)
                          THEN /\ pc' = "raised"
                               /\ UNCHANGED status_code
                          ELSE /\ status_code' = ResponseJson(r.resp)["status"]
                               /\ pc' = IF Terminal(status_code') THEN "done"
                                        ELSE IF CeilingReached(counter, max_attempts)
                                        THEN "done"
                                        ELSE "sleep"
    /\ UNCHANGED <<counter, max_attempts, lead, final, heap, calls, last>>

\* time.sleep(5); counter += 1
PollSleep ==
    /\ pc = "sleep"
    /\ events' = Append(events, "SLEEP")
    /\ counter' = counter + 1
    /\ pc' = "get"
    /\ UNCHANGED <<status_code, response, max_attempts, lead, final, heap, calls, last>>

PollInit ==
    /\ max_attempts \in (0 - 1)..MaxAttempts
    /\ lead \in 0..MaxLead
    /\ final \in GetOutcomes
    /\ status_code = Accepted
    /\ response = NoResponse
    /\ counter = 1
    /\ pc = "get"
    /\ events = <<>>

DataInit ==
    /\ heap = ModuleHeap
    /\ calls = 0
    /\ last = [op |-> "none"]

InitPoll == PollInit /\ DataInit
NextPoll == PollGet \/ PollSleep
SpecPoll == InitPoll /\ [][NextPoll]_vars

\* ---------------------------------------------------------------- the merger on its own
\* poll_request is not running
PollIdle ==
    /\ max_attempts = 0
    /\ lead = 0
    /\ final = Returned(0, NoContent)
    /\ status_code = Accepted
    /\ response = NoResponse
    /\ counter = 1
    /\ pc = "idle"
    /\ events = <<>>

InitMerge == PollIdle /\ DataInit
NextMerge == MergeCall \/ MutateExtraInfo
SpecMerge == InitMerge /\ [][NextMerge]_vars

\* ---------------------------------------------------------------- pangea_post_api, pangea_get_api
ai_guard_token == "token"

\* every payload given the AIDR metadata, whatever the service
EnrichAlways(h, service, data, cfg) == merge_aidr_metadata(h, data, cfg)
\* if service == "aidr": data = merge_aidr_metadata(data, aidr_config)
Enrich(h, service, data, cfg) ==
    IF service = "aidr" THEN merge_aidr_metadata(h, data, cfg) ELSE h

BaseHeaders ==
    ("Authorization" :> ("Bearer " \o ai_guard_token))
    @@ ("Content-Type" :> "application/json")
\* headers = {...}; if skip_cache: headers["x-pangea-skipcache"] = "true"
PostHeaders(skip_cache) ==
    IF skip_cache THEN BaseHeaders @@ ("x-pangea-skipcache" :> "true") ELSE BaseHeaders

\* what requests.post handed back, None included
PostResult(outcome, oid) ==
    IF outcome.kind = "none"
    THEN Return(create_error_response(500, "Internal server error: failed to fetch data", oid))
    ELSE IF outcome.kind = "response"
    THEN Return(Underlying(outcome, oid))
    ELSE HandleException(outcome, oid)

\* what a POST or a GET can do: requests returns a Response or raises
HttpOutcomes ==
    { Returned(200, StatusBody(Success)),
      Returned(202, StatusBody(Accepted)),
      Returned(500, NoContent),
      Raises("ReadTimeout", "read timed out"),
      Raises("ConnectTimeout", "connect timed out"),
      Raises("ConnectionError", "connection refused") }

\* the dicts of earlier callers are gone; the module's own objects stay
Collected(h) == SubSeq(h, 1, DefaultExtraAddr)

\* no outcome yet: the request is on its way
Pending == [kind |-> "pending", code |-> 0, content |-> NoContent, exc |-> "", text |-> ""]

\* pangea_post_api(service, endpoint, data, skip_cache, aidr_config=cfg) up to
\* the moment requests.post has the request
PostSend ==
    /\ calls < MaxCalls
    /\ last.op \in {"post", "get"} => last.outcome # Pending
    /\ \E service \in {"aidr", "aiguard"}, skip_cache \in BOOLEAN,
          tp \in TargetPlain, te \in TargetExtra, withCfg \in BOOLEAN,
          op \in OverridePlain, oe \in OverrideExtra :
          LET d == Build(Collected(heap), tp, te)
              c == Build(d.heap, op, oe)
              h0 == IF withCfg THEN c.heap ELSE d.heap
              cfg == IF withCfg THEN Ref(c.addr) ELSE None
              h1 == Enrich(h0, service, d.addr, cfg)
          IN /\ (~withCfg) => (op = EmptyDict /\ oe = Absent)
             /\ heap' = h1
             /\ last' = [op |-> "post", service |-> service, skip_cache |-> skip_cache,
                         data |-> d.addr, cfg |-> cfg, heap0 |-> h0, heap1 |-> h1,
                         sent |-> [method |-> "POST", headers |-> PostHeaders(skip_cache),
                                   json |-> DeepDict(h1, d.addr)],
                         outcome |-> Pending,
                         result |-> Propagate]
    /\ calls' = calls + 1
    /\ UNCHANGED pollVars

\* pangea_get_api(endpoint) up to the moment requests.get has the request
GetSend ==
    /\ calls < MaxCalls
    /\ last.op \in {"post", "get"} => last.outcome # Pending
    /\ last' = [op |-> "get", heap0 |-> heap, heap1 |-> heap,
                sent |-> [method |-> "GET", headers |-> BaseHeaders],
                outcome |-> Pending,
                result |-> Propagate]
    /\ calls' = calls + 1
    /\ UNCHANGED heap
    /\ UNCHANGED pollVars

\* requests.post / requests.get returns or raises, and the wrapper returns
Receive ==
    /\ last.op \in {"post", "get"}
    /\ last.outcome = Pending
    /\ \E outcome \in HttpOutcomes :
          last' = [last EXCEPT !.outcome = outcome,
                               !.result = IF last.op = "post"
                                          THEN PostResult(outcome, calls)
                                          ELSE pangea_get_api(outcome, calls)]
    /\ UNCHANGED <<heap, calls>>
    /\ UNCHANGED pollVars

InitHttp == PollIdle /\ DataInit
NextHttp == PostSend \/ GetSend \/ Receive
SpecHttp == InitHttp /\ [][NextHttp]_vars

\* ---------------------------------------------------------------- poll_request: properties
AcceptedAnswer == Returned(202, StatusBody(Accepted))
\* what poll_request gets back from its k-th GET
Got(k) == pangea_request(Answer(k), k)
HasStatus(k) ==
    /\ ~Got(k).raised
    /\ ~JsonRaises(Got(k).resp)
    /\ "status" \in DOMAIN ResponseJson(Got(k).resp)
StatusOf(k) == ResponseJson(Got(k).resp)["status"]
LastEventIsGet == events # <<>> /\ events[Len(events)] = "GET"
\* GET, SLEEP, GET, ..., GET: one sleep between consecutive GETs, none after the last
Alternating(n) ==
    /\ Len(events) = 2 * n - 1
    /\ \A i \in 1..Len(events) : events[i] = (IF i % 2 = 1 THEN "GET" ELSE "SLEEP")

\* C1: whatever max_attempts is (0 and negative values included), poll_request
\* never issues more GETs than the attempt ceiling allows.
C1_GetsWithinCeiling ==
    Gets <= (IF max_attempts > 0 THEN max_attempts ELSE 0)

\* C2: with max_attempts >= 1 and n = lead + 1 <= max_attempts, "Accepted" on
\* GETs 1..n-1 and "Success" on GET n make poll_request return ("Success",
\* the response of GET n) after exactly n GETs; it does not stop before.
C2_SuccessOnAttemptN ==
    (/\ max_attempts >= 1
     /\ lead + 1 <= max_attempts
     /\ final = Returned(200, StatusBody(Success)))
    => /\ pc # "raised"
       /\ Gets <= lead + 1
       /\ pc = "done" => /\ Gets = lead + 1
                         /\ status_code = Success
                         /\ response = Underlying(final, lead + 1)
                         /\ <<status_code, response>> = <<Success, Got(lead + 1).resp>>
C2_Witness ==
    /\ pc = "done"
    /\ max_attempts >= 2
    /\ lead + 1 = max_attempts
    /\ status_code = Success
    /\ Gets = max_attempts

\* C3: with max_attempts >= 1 and a server that answers "Accepted" to every
\* GET, poll_request does not raise and returns ("Accepted", the response of
\* GET max_attempts) after exactly max_attempts GETs, one sleep between
\* consecutive GETs and none after the last.
C3_AcceptedToTheCeiling ==
    (/\ max_attempts >= 1
     /\ \A k \in 1..max_attempts : Answer(k) = AcceptedAnswer)
    => /\ pc # "raised"
       /\ Gets <= max_attempts
       /\ pc = "done" => /\ status_code = Accepted
                         /\ response = Underlying(AcceptedAnswer, max_attempts)
                         /\ Gets = max_attempts
                         /\ Sleeps = max_attempts - 1
                         /\ Alternating(max_attempts)
C3_Witness ==
    /\ pc = "done"
    /\ max_attempts >= 3
    /\ status_code = Accepted
    /\ Gets = max_attempts
    /\ Sleeps = max_attempts - 1

\* C4: a GET response whose status is neither "Accepted" nor "Success" ends the
\* polling at once, at any attempt k: that GET is the last event (no further GET,
\* no sleep) and (that status, that response) is returned; and whenever a
\* response is returned the returned status is the response's status field.
C4_OtherStatusStopsAtOnce ==
    /\ \A k \in 1..Gets :
          (HasStatus(k) /\ StatusOf(k) # Accepted /\ StatusOf(k) # Success)
          => /\ k = Gets
             /\ LastEventIsGet
             /\ pc = "done"
             /\ <<status_code, response>> = <<StatusOf(k), Got(k).resp>>
    /\ (pc = "done" /\ response # NoResponse)
          => /\ ~JsonRaises(response)
             /\ "status" \in DOMAIN ResponseJson(response)
             /\ status_code = ResponseJson(response)["status"]
C4_Witness ==
    /\ pc = "done"
    /\ Gets >= 2
    /\ Gets < max_attempts
    /\ status_code = Str("ValidationError")
    /\ response = Underlying(final, Gets)

\* C8: a GET that times out or fails at request level is not retried: the
\* synthesized response's status field is the number 408 or 400, polling ends
\* with that GET (also below the ceiling) and returns (408 or 400, the
\* synthesized response); poll_request never returns without a response.
C8_FailedGetIsNotRetried ==
    /\ (final.kind = "raise" /\ Gets >= lead + 1)
          => LET code == IF IsTimeout(final.exc) THEN 408 ELSE 400
                 message == IF IsTimeout(final.exc) THEN "Request Timeout"
                            ELSE "Bad Request: " \o final.text
             IN /\ Gets = lead + 1
                /\ LastEventIsGet
                /\ pc = "done"
                /\ status_code = Num(code)
                /\ status_code # Accepted /\ status_code # Success
                /\ response = create_error_response(code, message, lead + 1)
                /\ response.status_code = code
    /\ pc = "done" => response # NoResponse
C8_Witness ==
    /\ pc = "done"
    /\ final.kind = "raise"
    /\ Gets >= 2
    /\ Gets < max_attempts
    /\ status_code \in {Num(408), Num(400)}
    /\ response.oid = Gets

\* ---------------------------------------------------------------- merge_aidr_metadata: properties
\* the target before and after the last call, and the override it was given
T0 == last.heap0[last.data]
T1 == last.heap1[last.data]
Ov == IF last.cfg = None THEN EmptyDict ELSE last.heap0[last.cfg.n]
Before(v) == Deep(last.heap0, v)
After(v) == Deep(last.heap1, v)
DefaultValue(K) == Deep(ModuleHeap, DEFAULT_AIDR_METADATA[K])
TargetKept ==
    \A K \in DOMAIN T0 :
        K \in DOMAIN T1 /\ T1[K] = T0[K] /\ After(T1[K]) = Before(T0[K])
OverrideMapping(K) == K = "extra_info" /\ K \in DOMAIN Ov /\ IsDict(Ov[K])
\* d holds every entry of E and every default extra_info entry whose key is
\* not in E, and nothing else
MergedExtraInfo(d, E) ==
    /\ DOMAIN d = DOMAIN E \cup DOMAIN DEFAULT_EXTRA_INFO
    /\ \A k \in DOMAIN E : d[k] = E[k]
    /\ \A k \in DOMAIN DEFAULT_EXTRA_INFO \ DOMAIN E : d[k] = DEFAULT_EXTRA_INFO[k]

\* C5 as stated: every key of the target keeps its value, and every default
\* key absent from the target (extra_info included) is inserted with the
\* override's value when the override supplies it, else with its default value.
C5_PrecedenceForEveryKey ==
    last.op = "merge" =>
        /\ TargetKept
        /\ \A K \in DOMAIN DEFAULT_AIDR_METADATA \ DOMAIN T0 :
              /\ K \in DOMAIN T1
              /\ After(T1[K]) = IF K \in DOMAIN Ov THEN Before(Ov[K]) ELSE DefaultValue(K)

\* C5 amended: as C5, except that extra_info, when the override's extra_info is
\* a mapping E, is inserted as the default extra_info updated key by key with E.
C5_PrecedenceExceptMergedExtraInfo ==
    last.op = "merge" =>
        /\ TargetKept
        /\ \A K \in DOMAIN DEFAULT_AIDR_METADATA \ DOMAIN T0 :
              /\ K \in DOMAIN T1
              /\ IF OverrideMapping(K)
                 THEN /\ IsDict(T1[K])
                      /\ MergedExtraInfo(last.heap1[T1[K].n], last.heap0[Ov[K].n])
                 ELSE After(T1[K]) =
                        IF K \in DOMAIN Ov THEN Before(Ov[K]) ELSE DefaultValue(K)
C5_Witness ==
    /\ last.op = "merge"
    /\ "model" \in DOMAIN T0 /\ "model" \in DOMAIN Ov
    /\ T1["model"] = Str("caller-model")
    /\ "app_id" \notin DOMAIN T0 /\ T1["app_id"] = Str("cfg-app")
    /\ T1["event_type"] = Str("input")
    /\ "extra_info" \notin DOMAIN T0 /\ OverrideMapping("extra_info")

\* C6: with no extra_info in the target and an override whose extra_info is a
\* mapping E, the result's extra_info holds every entry of E, every default
\* extra_info entry whose key is not in E, and nothing else.
C6_ExtraInfoMergedKeyByKey ==
    (/\ last.op = "merge"
     /\ "extra_info" \notin DOMAIN T0
     /\ OverrideMapping("extra_info"))
    => /\ "extra_info" \in DOMAIN T1
       /\ IsDict(T1["extra_info"])
       /\ MergedExtraInfo(last.heap1[T1["extra_info"].n], last.heap0[Ov["extra_info"].n])
C6_Witness ==
    /\ last.op = "merge"
    /\ "extra_info" \notin DOMAIN T0
    /\ OverrideMapping("extra_info")
    /\ last.heap1[T1["extra_info"].n] =
         ("a" :> Num(1)) @@ ("app_name" :> Str("cfg-name")) @@ ("actor_name" :> Str(getuser))

\* C9: whatever merges were made and however the callers changed the
\* extra_info of the results, DEFAULT_AIDR_METADATA and its extra_info hold
\* their initial values, and a call leaves the override it was given unchanged.
C9_DefaultNeverModified ==
    /\ heap[DefaultAddr] = DEFAULT_AIDR_METADATA
    /\ heap[DefaultExtraAddr] = DEFAULT_EXTRA_INFO
    /\ (last.op = "merge" /\ last.cfg # None)
          => /\ last.heap1[last.cfg.n] = last.heap0[last.cfg.n]
             /\ DeepDict(last.heap1, last.cfg.n) = DeepDict(last.heap0, last.cfg.n)
C9_Witness ==
    /\ calls >= 2
    /\ last.op = "merge"
    /\ OverrideMapping("extra_info")
    /\ "extra_info" \notin DOMAIN T0
    /\ heap[heap[last.data]["extra_info"].n]["actor_name"] = Str("changed")
    /\ heap[DefaultExtraAddr]["actor_name"] = Str(getuser)

\* ---------------------------------------------------------------- the wrappers: properties
\* C7: a request failure never leaves pangea_post_api or pangea_get_api as an
\* exception: a timeout gives status 408 with body {"status": 408, "message":
\* "Request Timeout"}, any other request failure gives status 400 with body
\* status 400 and a message holding the exception text, and a response that
\* requests returned is handed back as it is.
C7_FailuresBecomeResponses ==
    (last.op \in {"post", "get"} /\ last.outcome # Pending) =>
        LET o == last.outcome
            r == last.result
        IN /\ ~r.raised
           /\ (o.kind = "raise" /\ IsTimeout(o.exc))
                => /\ r.resp.status_code = 408
                   /\ ~JsonRaises(r.resp)
                   /\ ResponseJson(r.resp) =
                        ("status" :> Num(408)) @@ ("message" :> Str("Request Timeout"))
           /\ (o.kind = "raise" /\ ~IsTimeout(o.exc))
                => /\ r.resp.status_code = 400
                   /\ ~JsonRaises(r.resp)
                   /\ ResponseJson(r.resp) =
                        ("status" :> Num(400))
                        @@ ("message" :> Str("Bad Request: " \o o.text))
           /\ o.kind = "response"
                => /\ r.resp.status_code = o.code
                   /\ r.resp.content = o.content
                   /\ r.resp.oid = calls
C7_Witness ==
    /\ last.op = "post"
    /\ last.outcome = Raises("ConnectTimeout", "connect timed out")
    /\ last.result.resp.status_code = 408
    /\ ~last.result.raised

\* C10: pangea_post_api leaves and sends the data mapping as the caller passed
\* it unless the service is "aidr"; for "aidr" the caller's mapping itself is
\* extended by merge_aidr_metadata before it is sent; the x-pangea-skipcache
\* header is attached exactly when skip_cache is true.
C10_EnrichOnlyForAidr ==
    last.op = "post" =>
        /\ last.service # "aidr"
             => /\ last.heap1 = last.heap0
                /\ last.sent.json = DeepDict(last.heap0, last.data)
        /\ last.service = "aidr"
             => /\ last.heap1 = merge_aidr_metadata(last.heap0, last.data, last.cfg)
                /\ DOMAIN DEFAULT_AIDR_METADATA \subseteq DOMAIN T1
                /\ TargetKept
                /\ last.sent.json = DeepDict(last.heap1, last.data)
        /\ ("x-pangea-skipcache" \in DOMAIN last.sent.headers) <=> last.skip_cache
        /\ last.skip_cache => last.sent.headers["x-pangea-skipcache"] = "true"
C10_Witness ==
    /\ last.op = "post"
    /\ last.service = "aidr"
    /\ last.skip_cache
    /\ T0 = EmptyDict
    /\ last.cfg # None
    /\ last.sent.json["model"] = Str("cfg-model")
    /\ last.outcome = Returned(200, StatusBody(Success))
====
